---- MODULE Spec2Model ----
(***************************************************************************)
(* Chat room server (server/main.go, gRPC variant) and its redis-proxy.    *)
(*                                                                         *)
(* Shared state of the server process: the session map, the connection map *)
(* (clients), the unbuffered channel broadcast and the single mutex mu     *)
(* that guards both maps.  One goroutine runs websocketHandler per         *)
(* connection, one goroutine runs broadcastMessages (the dispatcher), and  *)
(* the HTTP handlers run per request.                                      *)
(*                                                                         *)
(* Time is counted in hours.  A session id is drawn from 32 random bytes;  *)
(* the model issues each id at most once.                                  *)
(***************************************************************************)
EXTENDS Integers, Sequences, FiniteSets, TLC

\* ------------------------------------------------------------------ bounds
\* Connection handles (*websocket.Conn), one per /ws request that upgrades.
Conns == {"c1", "c2", "c3"}
\* Session ids that generateSessionID can return, and a cookie value that it
\* never returns (a forged or stale cookie).
Tokens == {"t1", "t2"}
Forged == "tX"
Cookies == Tokens \cup {Forged}
\* User names and passwords that requests carry.
Users == {"alice", "bob"}
Passwords == {"secret1", "other12"}
\* The clock stops at MaxTime hours.
MaxTime == 50
\* Number of inbound frames read over all connections.
MaxReads == 1
\* POST /api/register requests, and the names and passwords their bodies carry.
Regs == {"r1", "r2", "r3"}
RegNames == {"", "alice", "bob"}
RegPasswords == {"", "abc", "secret1", "other12"}

\* --------------------------------------------------------------- constants
\* 24 * time.Hour, the session lifetime.
TTL == 24
\* The shortest password registerHandler accepts.
MinPassword == 6

VARIABLES
    rdb,        \* redis: key "user:"+username -> password
    reg,        \* the POST /api/register requests: position, body, status
    sessions,   \* token -> Session
    now,        \* time.Now(), in hours
    resp,       \* outcome of the latest session request (login, check, logout, ws)
    issued,     \* the session ids generateSessionID has returned: for whom, when
    clients,    \* *websocket.Conn -> username
    mu,         \* holder of the mutex: "free" or "dispatcher"
    hpc,        \* websocketHandler's position, per connection
    username,   \* websocketHandler's local username, per connection
    raw,        \* websocketHandler's local msg: the frame read last
    message,    \* websocketHandler's local message, per connection
    closed,     \* conn.Close() has been called
    stalled,    \* the peer stopped reading: a write to it does not return
    dpc,        \* broadcastMessages' position
    cur,        \* broadcastMessages' local msg
    data,       \* broadcastMessages' local data
    iter,       \* the connections the range loop has yet to produce
    seq,        \* number of receives from broadcast so far
    sender,     \* the connection whose handler sent the current event
    reads,      \* number of frames read so far
    regAtDeq,   \* DOMAIN clients when the current event was received
    regAtLock,  \* DOMAIN clients when the dispatcher locked mu for it
    lastDone,   \* the latest event written to a connection in a finished round
    failedIn,   \* connections whose write failed in the current round
    dropped,    \* connections the dispatcher has closed and deleted
    log         \* per connection, the writes attempted against it in this round

sessVars == <<rdb, reg, sessions, now, resp, issued>>
connVars == <<clients, hpc, username, raw, message, closed, stalled, reads>>
dispVars == <<mu, dpc, cur, data, iter, seq>>
histVars == <<sender, regAtDeq, regAtLock, lastDone, failedIn, dropped, log>>
vars == <<sessVars, connVars, dispVars, histVars>>

\* ---------------------------------------------------------------- sessions
\* A request without the session_id cookie.
NoCookie == "none"

\* type Session struct { Username; ExpiresAt }
Session(u, e) == [Username |-> u, ExpiresAt |-> e]

Max(S) == CHOOSE x \in S : \A y \in S : y <= x

\* time.Time.After
After(t, u) == t > u

\* map insert / delete on a map kept as a function
Put(m, k, v) == [x \in DOMAIN m \cup {k} |-> IF x = k THEN v ELSE m[x]]
Delete(m, k) == [x \in DOMAIN m \ {k} |-> m[x]]

\* getCurrentUser with the expiry test inverted.
getCurrentUserRevives(cookie) ==
    IF cookie = NoCookie \/ cookie \notin DOMAIN sessions
    THEN [user |-> "", ok |-> FALSE, sessions |-> sessions]
    ELSE [user |-> sessions[cookie].Username, ok |-> TRUE,
          sessions |-> [sessions EXCEPT ![cookie].ExpiresAt = now + TTL]]

\* getCurrentUser that returns the user without extending the session.
getCurrentUserNoSlide(cookie) ==
    IF cookie = NoCookie \/ cookie \notin DOMAIN sessions
       \/ After(now, sessions[cookie].ExpiresAt)
    THEN [user |-> "", ok |-> FALSE, sessions |-> sessions]
    ELSE [user |-> sessions[cookie].Username, ok |-> TRUE, sessions |-> sessions]

\* getCurrentUser: the username of the session the cookie names, and the
\* session map it leaves behind.  Its two calls of time.Now() (lines 62 and
\* 67) fall in the same hour.
getCurrentUser(cookie) ==
    IF cookie = NoCookie
    THEN [user |-> "", ok |-> FALSE, sessions |-> sessions]
    ELSE IF cookie \notin DOMAIN sessions \/ After(now, sessions[cookie].ExpiresAt)
    THEN [user |-> "", ok |-> FALSE, sessions |-> sessions]
    ELSE [user |-> sessions[cookie].Username, ok |-> TRUE,
          sessions |-> [sessions EXCEPT ![cookie].ExpiresAt = now + TTL]]

\* getCurrentUser takes mu only when the request carries the cookie.
CanValidate(cookie) == cookie = NoCookie \/ mu = "free"

\* What a session request saw and answered; pw is the password a login sent.
Resp(op, cookie, status, user) ==
    [op |-> op, cookie |-> cookie, at |-> now, status |-> status, user |-> user,
     pw |-> "", had |-> cookie \in DOMAIN sessions,
     exp0 |-> IF cookie \in DOMAIN sessions THEN sessions[cookie].ExpiresAt ELSE -1]

\* Login that takes a missing key for a match.
LoginMissingKeyMatches(u, p, fault) ==
    IF fault THEN [Success |-> FALSE, Message |-> "RedisError", err |-> TRUE]
    ELSE IF u \in DOMAIN rdb /\ rdb[u] # p
    THEN [Success |-> FALSE, Message |-> "WrongPassword", err |-> FALSE]
    ELSE [Success |-> TRUE, Message |-> "LoginOK", err |-> FALSE]

\* userServiceServer.Login of the redis-proxy: rdb.Get and the comparison.
\* fault: the redis call fails.
Login(u, p, fault) ==
    IF fault THEN [Success |-> FALSE, Message |-> "RedisError", err |-> TRUE]
    ELSE IF u \notin DOMAIN rdb
    THEN [Success |-> FALSE, Message |-> "NoSuchUser", err |-> FALSE]
    ELSE IF rdb[u] # p
    THEN [Success |-> FALSE, Message |-> "WrongPassword", err |-> FALSE]
    ELSE [Success |-> TRUE, Message |-> "LoginOK", err |-> FALSE]

\* POST /api/login
loginHandler(u, p, fault) ==
    LET r == Login(u, p, fault) IN
    /\ IF r.err
       THEN /\ resp' = [Resp("login", NoCookie, 500, u) EXCEPT !.pw = p]
            /\ UNCHANGED <<sessions, issued>>
       ELSE IF r.Success
       THEN /\ mu = "free"
            /\ \E sessionID \in Tokens \ DOMAIN issued :
                 /\ issued' = Put(issued, sessionID, [user |-> u, at |-> now])
                 /\ sessions' = Put(sessions, sessionID, Session(u, now + TTL))
                 /\ resp' = [Resp("login", sessionID, 200, u) EXCEPT !.pw = p]
       ELSE /\ resp' = [Resp("login", NoCookie, 401, u) EXCEPT !.pw = p]
            /\ UNCHANGED <<sessions, issued>>
    /\ UNCHANGED <<rdb, reg, now, connVars, dispVars, histVars>>

\* GET /api/check-login
checkLoginHandler(cookie) ==
    LET r == getCurrentUser(cookie) IN
    /\ CanValidate(cookie)
    /\ sessions' = r.sessions
    /\ resp' = Resp("check", cookie, IF r.ok THEN 200 ELSE 401, r.user)
    /\ UNCHANGED <<rdb, reg, now, issued, connVars, dispVars, histVars>>

\* logoutHandler that only expires the cookie.
logoutHandlerKeeps(cookie) ==
    /\ resp' = Resp("logout", cookie, 200, "")
    /\ UNCHANGED <<rdb, reg, sessions, now, issued, connVars, dispVars, histVars>>

\* logoutHandler that also drops the connections opened with the session.
logoutHandlerDisconnects(cookie) ==
    /\ IF cookie # NoCookie
       THEN /\ mu = "free"
            /\ sessions' = Delete(sessions, cookie)
            /\ clients' = [c \in {d \in DOMAIN clients :
                                     clients[d] \notin {issued[t].user :
                                                           t \in DOMAIN issued \cap {cookie}}}
                             |-> clients[c]]
       ELSE UNCHANGED <<sessions, clients>>
    /\ resp' = Resp("logout", cookie, 200, "")
    /\ UNCHANGED <<rdb, reg, now, issued, hpc, username, raw, message, closed, stalled,
                   reads, dispVars, histVars>>

\* POST /api/logout
logoutHandler(cookie) ==
    /\ IF cookie # NoCookie
       THEN /\ mu = "free"
            /\ sessions' = Delete(sessions, cookie)
       ELSE UNCHANGED sessions
    /\ resp' = Resp("logout", cookie, 200, "")
    /\ UNCHANGED <<rdb, reg, now, issued, connVars, dispVars, histVars>>

\* The clock advances by one session lifetime, or just beyond it.
ClockSteps == {TTL, TTL + 1}

Tick(d) ==
    /\ now + d <= MaxTime
    /\ now' = now + d
    /\ UNCHANGED <<rdb, reg, sessions, resp, issued, connVars, dispVars, histVars>>

\* --------------------------------------------------------------- directory
\* A register request that has not arrived yet.
NoReg == [pc |-> "idle", Username |-> "", Password |-> "", status |-> 0]

\* A register request that has been answered with HTTP status s.
RegDone(u, p, s) == [pc |-> "done", Username |-> u, Password |-> p, status |-> s]

\* registerHandler's test of the decoded body, without the length test.
InvalidInputAnyLength(u, p) == u = "" \/ p = ""

\* registerHandler's test of the decoded body.
InvalidInput(u, p) == u = "" \/ p = "" \/ Len(p) < MinPassword

\* POST /api/register up to and including rdb.Exists of the redis-proxy's
\* Register.  decoded: the body is JSON (a body that is not leaves req zero);
\* fault: the redis call fails.
registerHandler(r, u, p, decoded, fault) ==
    /\ reg[r].pc = "idle"
    /\ decoded \/ (u = "" /\ p = "")
    /\ reg' = [reg EXCEPT ![r] =
                 IF ~decoded THEN RegDone(u, p, 400)
                 ELSE IF InvalidInput(u, p) THEN RegDone(u, p, 400)
                 ELSE IF fault THEN RegDone(u, p, 500)
                 ELSE IF u \in DOMAIN rdb THEN RegDone(u, p, 409)
                 ELSE [pc |-> "set", Username |-> u, Password |-> p, status |-> 0]]
    /\ UNCHANGED <<rdb, sessions, now, resp, issued, connVars, dispVars, histVars>>

\* The rest of Register, after the key was found absent: rdb.Set, and the
\* answer of registerHandler.
RegisterSet(r, fault) ==
    /\ reg[r].pc = "set"
    /\ IF fault
       THEN /\ reg' = [reg EXCEPT ![r] = RegDone(reg[r].Username, reg[r].Password, 500)]
            /\ UNCHANGED rdb
       ELSE /\ rdb' = Put(rdb, reg[r].Username, reg[r].Password)
            /\ reg' = [reg EXCEPT ![r] = RegDone(reg[r].Username, reg[r].Password, 200)]
    /\ UNCHANGED <<sessions, now, resp, issued, connVars, dispVars, histVars>>

\* ------------------------------------------------------------- connections
\* type Message struct { Type; Username; Content }, and its zero value.
Message(t, u, c) == [Type |-> t, Username |-> u, Content |-> c]
NoMessage == Message("", "", "")

\* A frame that is not JSON.
Garbage == [garbage |-> "{"]

\* The text frames a client sends: JSON objects, keys as on the wire.
Frames ==
    { [type |-> "message", username |-> "mallory", content |-> "hi"],
      [type |-> "message", username |-> "alice"],
      [type |-> "userLeft", username |-> "bob"],
      Garbage }

\* json.Unmarshal(msg, &message): a key the object lacks leaves the zero value.
Field(f, k) == IF k \in DOMAIN f THEN f[k] ELSE ""
Unmarshal(f) ==
    IF "garbage" \in DOMAIN f
    THEN [ok |-> FALSE, message |-> NoMessage]
    ELSE [ok |-> TRUE,
          message |-> Message(Field(f, "type"), Field(f, "username"), Field(f, "content"))]

\* json.Marshal(msg): content is omitempty.  It returns no error for a struct
\* of three strings, so the dispatcher's "continue" on err is never taken.
Marshal(m) ==
    IF m.Content = ""
    THEN [type |-> m.Type, username |-> m.Username]
    ELSE [type |-> m.Type, username |-> m.Username, content |-> m.Content]

\* The orders in which a range over a map with these keys can produce them.
Orders(S) ==
    {s \in [1..Cardinality(S) -> S] : \A i, j \in 1..Cardinality(S) : i # j => s[i] # s[j]}

\* websocketHandler, lines 190-202: validate the session, upgrade.
\* upgraded: upgrader.Upgrade succeeds.
WsUpgrade(c, cookie, upgraded) ==
    LET r == getCurrentUser(cookie) IN
    /\ hpc[c] = "new"
    /\ CanValidate(cookie)
    /\ sessions' = r.sessions
    /\ resp' = Resp("ws", cookie, IF ~r.ok THEN 401 ELSE IF upgraded THEN 101 ELSE 400, r.user)
    /\ IF r.ok /\ upgraded
       THEN /\ username' = [username EXCEPT ![c] = r.user]
            /\ hpc' = [hpc EXCEPT ![c] = "join"]
       ELSE UNCHANGED <<username, hpc>>
    /\ UNCHANGED <<rdb, reg, now, issued, clients, raw, message, closed, stalled, reads,
                   dispVars, histVars>>

\* Join that inserts without taking mu: a range loop that is running may
\* produce the new entry.
JoinUnlocked(c) ==
    /\ hpc[c] = "join"
    /\ clients' = Put(clients, c, username[c])
    /\ hpc' = [hpc EXCEPT ![c] = "sendJoined"]
    /\ \/ iter' = iter
       \/ dpc = "iter" /\ iter' = Append(iter, c)
    /\ UNCHANGED <<sessVars, username, raw, message, closed, stalled, reads,
                   mu, dpc, cur, data, seq, histVars>>

\* Join that sends userJoined before it releases mu.
JoinHolding(c) ==
    /\ hpc[c] = "join"
    /\ mu = "free"
    /\ mu' = c
    /\ clients' = Put(clients, c, username[c])
    /\ hpc' = [hpc EXCEPT ![c] = "sendJoined"]
    /\ UNCHANGED <<sessVars, username, raw, message, closed, stalled, reads,
                   dpc, cur, data, iter, seq, histVars>>

\* websocketHandler, lines 205-207: insert under mu.  The log.Printf calls
\* of lines 209 and 235 read len(clients) without mu: the number they print
\* may be stale, and nothing else depends on it.
Join(c) ==
    /\ hpc[c] = "join"
    /\ mu = "free"
    /\ clients' = Put(clients, c, username[c])
    /\ hpc' = [hpc EXCEPT ![c] = "sendJoined"]
    /\ UNCHANGED <<sessVars, username, raw, message, closed, stalled, reads,
                   dispVars, histVars>>

\* The read loop without line 226: the client's username is kept.
ReadTrusting(c, f) ==
    /\ hpc[c] = "read"
    /\ ~closed[c]
    /\ reads < MaxReads
    /\ reads' = reads + 1
    /\ raw' = [raw EXCEPT ![c] = f]
    /\ IF Unmarshal(f).ok
       THEN /\ message' = [message EXCEPT ![c] = Unmarshal(f).message]
            /\ hpc' = [hpc EXCEPT ![c] = "sendMsg"]
       ELSE UNCHANGED <<message, hpc>>
    /\ UNCHANGED <<sessVars, clients, username, closed, stalled, dispVars, histVars>>

\* websocketHandler, lines 213-226: conn.ReadMessage returns frame f.
Read(c, f) ==
    /\ hpc[c] = "read"
    /\ ~closed[c]
    /\ reads < MaxReads
    /\ reads' = reads + 1
    /\ raw' = [raw EXCEPT ![c] = f]
    /\ IF Unmarshal(f).ok
       THEN /\ message' = [message EXCEPT ![c] =
                              [Unmarshal(f).message EXCEPT !.Username = username[c]]]
            /\ hpc' = [hpc EXCEPT ![c] = "sendMsg"]
       ELSE UNCHANGED <<message, hpc>>
    /\ UNCHANGED <<sessVars, clients, username, closed, stalled, dispVars, histVars>>

\* websocketHandler, lines 213-217: conn.ReadMessage returns an error (the
\* peer went away, or the connection was closed).
ReadError(c) ==
    /\ hpc[c] = "read"
    /\ hpc' = [hpc EXCEPT ![c] = "leave"]
    /\ UNCHANGED <<sessVars, clients, username, raw, message, closed, stalled, reads,
                   dispVars, histVars>>

\* websocketHandler, lines 231-233: delete under mu.
Leave(c) ==
    /\ hpc[c] = "leave"
    /\ mu = "free"
    /\ clients' = Delete(clients, c)
    /\ hpc' = [hpc EXCEPT ![c] = "sendLeft"]
    /\ UNCHANGED <<sessVars, username, raw, message, closed, stalled, reads,
                   dispVars, histVars>>

\* The peer of a registered connection stops reading, for good.
Stall(c) ==
    /\ c \in DOMAIN clients
    /\ ~stalled[c]
    /\ stalled' = [stalled EXCEPT ![c] = TRUE]
    /\ UNCHANGED <<sessVars, clients, hpc, username, raw, message, closed, reads,
                   dispVars, histVars>>

\* -------------------------------------------------------------- dispatcher
\* The handlers blocked in a send on broadcast, and what each one sends
\* (lines 208, 227, 234).
Sending(c) == hpc[c] \in {"sendJoined", "sendMsg", "sendLeft"}
Outgoing(c) ==
    IF hpc[c] = "sendJoined" THEN Message("userJoined", username[c], "")
    ELSE IF hpc[c] = "sendLeft" THEN Message("userLeft", username[c], "")
    ELSE message[c]

\* Where the handler goes once its send has been received.  After the
\* userLeft send the handler returns, and the deferred conn.Close() runs.
AfterSend(c) == IF hpc[c] = "sendLeft" THEN "closed" ELSE "read"

\* The receive that writes again what was marshalled last.
ReceiveStale(c) ==
    /\ dpc = "recv"
    /\ Sending(c)
    /\ cur' = Outgoing(c)
    /\ data' = data
    /\ seq' = seq + 1
    /\ sender' = c
    /\ dpc' = "lock"
    /\ hpc' = [hpc EXCEPT ![c] = AfterSend(c)]
    /\ message' = [message EXCEPT ![c] = NoMessage]
    /\ raw' = [raw EXCEPT ![c] = Garbage]
    /\ closed' = [closed EXCEPT ![c] = closed[c] \/ hpc[c] = "sendLeft"]
    /\ regAtDeq' = DOMAIN clients
    /\ UNCHANGED <<sessVars, clients, username, stalled, reads,
                   mu, iter, regAtLock, lastDone, failedIn, dropped, log>>

\* broadcastMessages, lines 240-241: receive from the unbuffered channel
\* (a rendezvous with the sending handler c) and marshal.  The handler's
\* msg and message end with its loop iteration.
Receive(c) ==
    /\ dpc = "recv"
    /\ Sending(c)
    /\ cur' = Outgoing(c)
    /\ data' = [id |-> seq + 1, json |-> Marshal(Outgoing(c))]
    /\ seq' = seq + 1
    /\ sender' = c
    /\ dpc' = "lock"
    /\ hpc' = [hpc EXCEPT ![c] = AfterSend(c)]
    /\ message' = [message EXCEPT ![c] = NoMessage]
    /\ raw' = [raw EXCEPT ![c] = Garbage]
    /\ closed' = [closed EXCEPT ![c] = closed[c] \/ hpc[c] = "sendLeft"]
    /\ regAtDeq' = DOMAIN clients
    /\ UNCHANGED <<sessVars, clients, username, stalled, reads,
                   mu, iter, regAtLock, lastDone, failedIn, dropped, log>>

\* broadcastMessages, lines 247-248: take mu, start the range over clients.
Lock ==
    /\ dpc = "lock"
    /\ mu = "free"
    /\ mu' = "dispatcher"
    /\ dpc' = "iter"
    /\ \E o \in Orders(DOMAIN clients) : iter' = o
    /\ regAtLock' = DOMAIN clients
    /\ UNCHANGED <<sessVars, connVars, cur, data, seq, sender, regAtDeq,
                   lastDone, failedIn, dropped, log>>

\* One write attempted: the event data encodes, the connection that
\* produced it, the position of the write in its round and its outcome.
Attempt(ok) ==
    [seq |-> data.id, from |-> sender, json |-> data.json,
     nth |-> Cardinality({c \in Conns : log[c] # <<>>}) + 1,
     ok |-> ok]

\* The loop body where deleting the current entry loses the next one.
WriteSkipping(ok) ==
    /\ dpc = "iter"
    /\ iter # <<>>
    /\ ~stalled[Head(iter)]
    /\ closed[Head(iter)] => ~ok
    /\ log' = [log EXCEPT ![Head(iter)] = Append(@, Attempt(ok))]
    /\ IF ok
       THEN /\ iter' = Tail(iter)
            /\ UNCHANGED <<clients, closed, failedIn, dropped>>
       ELSE /\ closed' = [closed EXCEPT ![Head(iter)] = TRUE]
            /\ clients' = Delete(clients, Head(iter))
            /\ failedIn' = failedIn \cup {Head(iter)}
            /\ dropped' = dropped \cup {Head(iter)}
            /\ iter' = IF Len(iter) > 1 THEN Tail(Tail(iter)) ELSE <<>>
    /\ UNCHANGED <<sessVars, hpc, username, raw, message, stalled, reads,
                   mu, dpc, cur, data, seq, sender, regAtDeq, regAtLock, lastDone>>

\* The loop body that ends the range at the first failed write.
WriteAborting(ok) ==
    /\ dpc = "iter"
    /\ iter # <<>>
    /\ ~stalled[Head(iter)]
    /\ closed[Head(iter)] => ~ok
    /\ log' = [log EXCEPT ![Head(iter)] = Append(@, Attempt(ok))]
    /\ IF ok
       THEN /\ iter' = Tail(iter)
            /\ UNCHANGED <<clients, closed, failedIn, dropped>>
       ELSE /\ closed' = [closed EXCEPT ![Head(iter)] = TRUE]
            /\ clients' = Delete(clients, Head(iter))
            /\ failedIn' = failedIn \cup {Head(iter)}
            /\ dropped' = dropped \cup {Head(iter)}
            /\ iter' = <<>>
    /\ UNCHANGED <<sessVars, hpc, username, raw, message, stalled, reads,
                   mu, dpc, cur, data, seq, sender, regAtDeq, regAtLock, lastDone>>

\* The loop body that closes the connection after a failed write and leaves
\* its entry in clients.
WriteKeeping(ok) ==
    /\ dpc = "iter"
    /\ iter # <<>>
    /\ ~stalled[Head(iter)]
    /\ closed[Head(iter)] => ~ok
    /\ log' = [log EXCEPT ![Head(iter)] = Append(@, Attempt(ok))]
    /\ IF ok
       THEN UNCHANGED <<closed, failedIn, dropped>>
       ELSE /\ closed' = [closed EXCEPT ![Head(iter)] = TRUE]
            /\ failedIn' = failedIn \cup {Head(iter)}
            /\ dropped' = dropped \cup {Head(iter)}
    /\ iter' = Tail(iter)
    /\ UNCHANGED <<sessVars, clients, hpc, username, raw, message, stalled, reads,
                   mu, dpc, cur, data, seq, sender, regAtDeq, regAtLock, lastDone>>

\* broadcastMessages, lines 248-254: the loop body for the next connection
\* the range produces.  ok: conn.WriteMessage returns nil.  The call does
\* not return while the peer is stalled.
Write(ok) ==
    /\ dpc = "iter"
    /\ iter # <<>>
    /\ ~stalled[Head(iter)]
    /\ closed[Head(iter)] => ~ok
    /\ log' = [log EXCEPT ![Head(iter)] = Append(@, Attempt(ok))]
    /\ IF ok
       THEN UNCHANGED <<clients, closed, failedIn, dropped>>
       ELSE /\ closed' = [closed EXCEPT ![Head(iter)] = TRUE]
            /\ clients' = Delete(clients, Head(iter))
            /\ failedIn' = failedIn \cup {Head(iter)}
            /\ dropped' = dropped \cup {Head(iter)}
    /\ iter' = Tail(iter)
    /\ UNCHANGED <<sessVars, hpc, username, raw, message, stalled, reads,
                   mu, dpc, cur, data, seq, sender, regAtDeq, regAtLock, lastDone>>

\* The events written to some connection in this round.
WrittenIds == UNION {{log[c][i].seq : i \in 1..Len(log[c])} : c \in Conns}

\* The value of data outside the loop body.
NoData == [id |-> 0, json |-> Marshal(NoMessage)]

\* broadcastMessages, line 255: the range is over, release mu; msg and data
\* end with the loop iteration, and so does the record of the round.
Unlock ==
    /\ dpc = "iter"
    /\ iter = <<>>
    /\ mu' = "free"
    /\ dpc' = "recv"
    /\ cur' = NoMessage
    /\ data' = NoData
    /\ sender' = "none"
    /\ regAtDeq' = {}
    /\ regAtLock' = {}
    /\ failedIn' = {}
    /\ lastDone' = Max({lastDone} \cup WrittenIds)
    /\ log' = [c \in Conns |-> <<>>]
    /\ UNCHANGED <<sessVars, connVars, iter, seq, dropped>>

\* ----------------------------------------------------------- specification
\* The user names a login request can carry: the registered ones and one
\* that has no record.
LoginNames == Users \cup {"carol"}

\* The records redis holds when the server starts.
Registered == [u \in Users |-> IF u = "alice" THEN "secret1" ELSE "other12"]

NoResp == [op |-> "none", cookie |-> NoCookie, at |-> 0, status |-> 0, user |-> "",
           pw |-> "", had |-> FALSE, exp0 |-> -1]

\* The hub before the first /ws request.
HubIdle ==
    /\ clients = <<>>
    /\ mu = "free"
    /\ hpc = [c \in Conns |-> "new"]
    /\ username = [c \in Conns |-> ""]
    /\ raw = [c \in Conns |-> Garbage]
    /\ message = [c \in Conns |-> NoMessage]
    /\ closed = [c \in Conns |-> FALSE]
    /\ stalled = [c \in Conns |-> FALSE]
    /\ dpc = "recv"
    /\ cur = NoMessage
    /\ data = NoData
    /\ iter = <<>>
    /\ seq = 0
    /\ sender = "none"
    /\ reads = 0
    /\ regAtDeq = {}
    /\ regAtLock = {}
    /\ lastDone = 0
    /\ failedIn = {}
    /\ dropped = {}
    /\ log = [c \in Conns |-> <<>>]

\* The server has just started.
Init ==
    /\ rdb = Registered
    /\ reg = [r \in Regs |-> NoReg]
    /\ sessions = <<>>
    /\ now = 0
    /\ resp = NoResp
    /\ issued = <<>>
    /\ HubIdle

\* The session map once alice and bob have logged in, at time 0.
LoggedIn == [t \in Tokens |-> Session(IF t = "t1" THEN "alice" ELSE "bob", TTL)]

\* Both users are logged in, nobody has opened a connection.
HubInit ==
    /\ rdb = Registered
    /\ reg = [r \in Regs |-> NoReg]
    /\ sessions = LoggedIn
    /\ now = 0
    /\ resp = NoResp
    /\ issued = [t \in Tokens |-> [user |-> LoggedIn[t].Username, at |-> 0]]
    /\ HubIdle

\* The cookie each /ws request carries: c2 is bob's connection, the others
\* are alice's.
CookieOf == [c \in Conns |-> IF c = "c2" THEN "t2" ELSE "t1"]

\* The HTTP requests that touch the session map, and the clock.
SessionNext ==
    \/ \E u \in LoginNames, p \in Passwords, fault \in BOOLEAN : loginHandler(u, p, fault)
    \/ \E cookie \in Cookies \cup {NoCookie} : checkLoginHandler(cookie)
    \/ \E cookie \in Cookies \cup {NoCookie} : logoutHandler(cookie)
    \/ \E d \in ClockSteps : Tick(d)
    \/ \E cookie \in Cookies \cup {NoCookie}, upgraded \in BOOLEAN :
          WsUpgrade("c1", cookie, upgraded)

\* The connection handlers and the dispatcher.
HubNext ==
    \/ \E c \in Conns : WsUpgrade(c, CookieOf[c], TRUE)
    \/ \E c \in Conns : Join(c)
    \/ \E c \in Conns, f \in Frames : Read(c, f)
    \/ \E c \in Conns : ReadError(c)
    \/ \E c \in Conns : Leave(c)
    \/ \E c \in Conns : Receive(c)
    \/ Lock
    \/ \E ok \in BOOLEAN : Write(ok)
    \/ Unlock

\* The redis-proxy starts on an empty store.
DirInit ==
    /\ rdb = <<>>
    /\ reg = [r \in Regs |-> NoReg]
    /\ sessions = <<>>
    /\ now = 0
    /\ resp = NoResp
    /\ issued = <<>>
    /\ HubIdle

\* Registrations, whose two redis calls interleave with each other's, and
\* logins.
DirNext ==
    \/ \E r \in Regs, u \in RegNames, p \in RegPasswords, decoded \in BOOLEAN,
          fault \in BOOLEAN : registerHandler(r, u, p, decoded, fault)
    \/ \E r \in Regs, fault \in BOOLEAN : RegisterSet(r, fault)
    \/ \E u \in Users, p \in Passwords, fault \in BOOLEAN : loginHandler(u, p, fault)

\* The user directory: registration and login, from an empty store.
DirSpec == DirInit /\ [][DirNext]_vars

\* Sessions: login, validation, logout and expiry, from a fresh server.
SessionSpec == Init /\ [][SessionNext]_vars

\* The hub: connections of logged-in users, every write returns.
HubSpec == HubInit /\ [][HubNext]_vars

\* The hub with peers that may stop reading.
StallNext ==
    \/ HubNext
    \/ \E c \in Conns : Stall(c)

\* The Go scheduler runs every goroutine that can run: the dispatcher takes
\* each step it is not blocked in, and so does every handler that waits for
\* mu.
Fairness ==
    /\ WF_vars(\E c \in Conns : Receive(c))
    /\ WF_vars(Lock)
    /\ WF_vars(\E ok \in BOOLEAN : Write(ok))
    /\ WF_vars(Unlock)
    /\ \A c \in Conns : WF_vars(Join(c)) /\ WF_vars(Leave(c))

\* conn.ReadMessage on a connection that has been closed returns an error.
ReadFairness == \A c \in Conns : WF_vars(closed[c] /\ ReadError(c))

StallSpec == HubInit /\ [][StallNext]_vars /\ Fairness /\ ReadFairness

\* The hub when only alice's first connection and bob's are opened.
FairConns == {"c1", "c2"}
FairHubNext ==
    \/ \E c \in FairConns : WsUpgrade(c, CookieOf[c], TRUE)
    \/ \E c \in FairConns : Join(c)
    \/ \E c \in FairConns, f \in Frames : Read(c, f)
    \/ \E c \in FairConns : ReadError(c)
    \/ \E c \in FairConns : Leave(c)
    \/ \E c \in FairConns : Receive(c)
    \/ Lock
    \/ \E ok \in BOOLEAN : Write(ok)
    \/ Unlock

\* Two connections under the Go scheduler, every write returns.
FairHubSpec == HubInit /\ [][FairHubNext]_vars /\ Fairness /\ ReadFairness

\* Two connections, while their users log out and their sessions run out.
RevokeNext ==
    \/ FairHubNext
    \/ \E cookie \in Tokens : logoutHandler(cookie)
    \/ Tick(TTL + 1)

RevokeSpec == HubInit /\ [][RevokeNext]_vars

\* ------------------------------------------------------------------ claims
Range(s) == {s[i] : i \in 1..Len(s)}

\* The range loop of the current dispatch round has produced every entry.
RoundOver == dpc = "iter" /\ iter = <<>>

\* The latest session request was a validation (getCurrentUser ran).
Validated == resp.op \in {"check", "ws"}

\* C1 as stated: when the round of event E is over, every connection that
\* was registered when E was received has had exactly one write of E
\* attempted against it.
C1_RegisteredAtDequeue ==
    RoundOver => \A c \in regAtDeq : Len(log[c]) = 1 /\ log[c][1].seq = seq

\* C1, amended: during the round of event E every connection registered
\* when the dispatcher took mu for E is either still to be produced by the
\* range, once, or has had exactly one write of E attempted; no other
\* connection is written; so when the round is over each of them has been
\* written E exactly once, also after deletions in the same range.
C1_RegisteredAtLock ==
    dpc = "iter" =>
        \A c \in Conns :
            /\ Len(log[c]) <= 1
            /\ Cardinality({i \in 1..Len(iter) : iter[i] = c}) <= 1
            /\ ~(log[c] # <<>> /\ c \in Range(iter))
            /\ c \in regAtLock <=> (log[c] # <<>> \/ c \in Range(iter))
            /\ log[c] # <<>> => log[c][1].seq = seq

\* A round over three connections where one write failed and a later write
\* of the same round reached another connection.
C1_Witness ==
    /\ RoundOver
    /\ Cardinality(regAtLock) = 3
    /\ \E c \in failedIn, d \in regAtLock \ failedIn :
          /\ ~log[c][1].ok
          /\ log[d][1].ok
          /\ log[d][1].nth > log[c][1].nth

\* C2: the events written to a connection are numbered in the order of
\* their receipt from the channel: each one is an event that was received,
\* later than every event written in an earlier round, and later than the
\* one written to the connection before it.
C2_WriteOrder ==
    \A c \in Conns : \A i \in 1..Len(log[c]) :
        /\ log[c][i].seq <= seq
        /\ log[c][i].seq > lastDone
        /\ i > 1 => log[c][i].seq > log[c][i - 1].seq

\* A connection is written a chat event of another connection after earlier
\* events, while two more handlers are blocked in their sends.
C2_Witness ==
    \E c \in Conns :
        /\ log[c] # <<>>
        /\ lastDone >= 2
        /\ log[c][1].from # c
        /\ log[c][1].json.type = "message"
        /\ Cardinality({d \in Conns : Sending(d)}) >= 2

\* C3: a connection whose write failed is closed and gone from clients;
\* every other connection of the round is still written the event or still
\* to be produced; and the dispatcher is in its loop, not stopped.
C3_FailureContained ==
    /\ failedIn \subseteq dropped
    /\ \A c \in dropped : c \notin DOMAIN clients /\ closed[c]
    /\ dpc = "iter" =>
          \A c \in regAtLock \ failedIn :
              \/ c \in Range(iter)
              \/ Len(log[c]) = 1 /\ log[c][1].seq = seq /\ log[c][1].ok
    /\ dpc \in {"recv", "lock", "iter"}
    /\ (dpc = "recv" /\ \E c \in Conns : Sending(c)) => ENABLED (\E c \in Conns : Receive(c))

\* After a connection was dropped in an earlier round, a later event has
\* been written to a connection that is still registered.
C3_Witness ==
    /\ RoundOver
    /\ dropped # {}
    /\ failedIn = {}
    /\ \E c \in DOMAIN clients : log[c] # <<>> /\ log[c][1].ok

\* C4 as stated: a connection that is written event E was in clients when
\* E was received from the channel.
C4_NotAfterEnqueue ==
    \A c \in Conns : log[c] # <<>> => c \in regAtDeq

\* C4, amended: a connection that is written event E was in clients when
\* the dispatcher took mu for E; one inserted later is not written E.
C4_NotAfterLock ==
    /\ \A c \in Conns : log[c] # <<>> => c \in regAtLock
    /\ dpc = "iter" => DOMAIN clients \subseteq regAtLock

\* A handler waits for mu in Join while the round of an event is written
\* out to another connection, and is not written that event.
C4_Witness ==
    /\ RoundOver
    /\ \E c \in Conns : hpc[c] = "join" /\ log[c] = <<>>
    /\ \E d \in Conns : log[d] # <<>>

\* C5: every event a handler sends, the dispatcher holds or a connection is
\* written carries the username that getCurrentUser returned to the handler
\* that produced it.
C5_Attribution ==
    /\ \A c \in Conns : Sending(c) => Outgoing(c).Username = issued[CookieOf[c]].user
    /\ dpc \in {"lock", "iter"} =>
          /\ cur.Username = issued[CookieOf[sender]].user
          /\ data.json.username = issued[CookieOf[sender]].user
    /\ \A c \in Conns : \A i \in 1..Len(log[c]) :
          log[c][i].json.username = issued[CookieOf[log[c][i].from]].user

\* Another connection is written the chat event whose frame named mallory,
\* under the name of the user who sent it.
C5_Witness ==
    \E c, d \in Conns :
        /\ c # d
        /\ log[d] # <<>>
        /\ log[d][1].from = c
        /\ log[d][1].json = [type |-> "message", username |-> username[c], content |-> "hi"]

\* C6 as stated: what a handler sends for an inbound frame is a chat event.
C6_SendIsChat ==
    \A c \in Conns : hpc[c] = "sendMsg" => message[c].Type = "message"

\* The dispatcher is in conn.WriteMessage on a connection whose peer has
\* stopped reading.
StalledWrite == dpc = "iter" /\ iter # <<>> /\ stalled[Head(iter)]

\* C7 as stated: when a write stalls, every other connection of the round
\* is eventually written the event, and the dispatcher eventually is back
\* at the channel for the next event.
C7_StallDoesNotBlock ==
    /\ \A c \in Conns : (StalledWrite /\ c \in Range(Tail(iter))) ~> (log[c] # <<>>)
    /\ StalledWrite ~> (dpc = "recv")

\* C8: a logout answers 200 and leaves its cookie's session absent; a
\* session id that has been removed never comes back; a validation that
\* finds no session answers absent; and a logout whose cookie names no
\* session leaves the session map as it was.
C8_RevokeIsFinal ==
    /\ [](resp.op = "logout" =>
            /\ resp.status = 200
            /\ resp.cookie \notin DOMAIN sessions)
    /\ []((Validated /\ ~resp.had) => (resp.status = 401 /\ resp.user = ""))
    /\ [][\A t \in DOMAIN issued :
            t \notin DOMAIN sessions => t \notin DOMAIN sessions']_vars
    /\ [][(resp'.op = "logout" /\ ~resp'.had) => sessions' = sessions]_vars

\* A validation of a session id that was issued and then revoked has
\* answered 401.
C8_Witness ==
    /\ Validated
    /\ resp.cookie \in DOMAIN issued
    /\ ~resp.had
    /\ resp.status = 401

\* C9: a validation that finds the session at a time not after its expiry
\* succeeds with the username the id was issued for and leaves the expiry
\* at that time plus TTL; and no step lowers the expiry of a session.
C9_SlidingExpiry ==
    /\ []((Validated /\ resp.had /\ resp.at <= resp.exp0) =>
            /\ resp.status # 401
            /\ resp.user = issued[resp.cookie].user
            /\ resp.cookie \in DOMAIN sessions
            /\ sessions[resp.cookie] = Session(issued[resp.cookie].user, resp.at + TTL))
    /\ [][\A t \in DOMAIN sessions \cap DOMAIN sessions' :
            sessions'[t].ExpiresAt >= sessions[t].ExpiresAt]_vars

\* A session that was extended once is validated again, successfully, two
\* lifetimes after it was issued: at the very end of its extended lifetime.
C9_Witness ==
    /\ resp.op = "check"
    /\ resp.status = 200
    /\ resp.had
    /\ resp.at = issued[resp.cookie].at + 2 * TTL
    /\ resp.exp0 = resp.at
    /\ sessions[resp.cookie].ExpiresAt = resp.at + TTL

\* C10: a validation that finds the session after its expiry answers absent
\* and leaves the entry as it was; a session that has expired is never
\* changed again (it can only be deleted); and a validation that answers
\* absent leaves the session map as it was.
C10_ExpiredStaysExpired ==
    /\ []((Validated /\ resp.had /\ resp.at > resp.exp0) =>
            /\ resp.status = 401
            /\ resp.user = ""
            /\ resp.cookie \in DOMAIN sessions
            /\ sessions[resp.cookie].ExpiresAt = resp.exp0)
    /\ [][\A t \in DOMAIN sessions \cap DOMAIN sessions' :
            After(now, sessions[t].ExpiresAt) =>
                /\ sessions'[t] = sessions[t]
                /\ After(now', sessions'[t].ExpiresAt)]_vars
    /\ [][(Validated' /\ resp'.status = 401) => sessions' = sessions]_vars

\* A session was looked up one hour after its expiry, and the request was
\* answered 401.
C10_Witness ==
    /\ Validated
    /\ resp.had
    /\ resp.at = resp.exp0 + 1
    /\ resp.status = 401

\* The register requests answered with status s for username u.
Answered(u, s) ==
    {r \in Regs : reg[r].pc = "done" /\ reg[r].Username = u /\ reg[r].status = s}

\* C11 as stated: among the register calls for one username that met no
\* store error, whatever the interleaving of their Exists and Set steps,
\* exactly one is answered with success and every other one with Conflict.
C11_OneSuccessPerName ==
    \A u \in RegNames :
        Answered(u, 200) \cup Answered(u, 409) # {}
            => Cardinality(Answered(u, 200)) = 1

\* C12 as stated: once Register(u, p) has returned success the stored
\* password of u is p and Login(u, p) succeeds, whatever other Register calls
\* ran before, during or after it.
C12_RecordNeverChanges ==
    \A r \in Regs :
        (reg[r].pc = "done" /\ reg[r].status = 200)
            => /\ reg[r].Username \in DOMAIN rdb
               /\ rdb[reg[r].Username] = reg[r].Password
               /\ Login(reg[r].Username, reg[r].Password, FALSE).Success

\* A step of loginHandler that answered.
LoginAnswered == resp'.op = "login" /\ resp' # resp

\* C13: loginHandler adds a session exactly when Login succeeds (the user
\* has a record, the password is the stored one, redis answered), it adds
\* that one session for that user, it never changes the store, nothing but a
\* login adds a session, and every session is bound to a username that has a
\* record.
C13_SessionIffAuthenticated ==
    /\ [](\A t \in DOMAIN sessions : sessions[t].Username \in DOMAIN rdb)
    /\ [][sessions' # sessions => LoginAnswered]_vars
    /\ [][LoginAnswered =>
            /\ rdb' = rdb
            /\ IF /\ resp'.status # 500
                  /\ resp'.user \in DOMAIN rdb
                  /\ rdb[resp'.user] = resp'.pw
               THEN /\ resp'.status = 200
                    /\ resp'.cookie \notin DOMAIN sessions
                    /\ sessions' = Put(sessions, resp'.cookie,
                                       Session(resp'.user, now + TTL))
               ELSE /\ resp'.status \in {401, 500}
                    /\ sessions' = sessions]_vars

\* A login was refused for a user who has a record (wrong password), and a
\* session of that user exists from an earlier login.
C13_Witness ==
    /\ resp.op = "login" /\ resp.status = 401
    /\ resp.user \in DOMAIN rdb
    /\ \E t \in DOMAIN sessions : sessions[t].Username = resp.user

\* C14: a register request with an empty username, an empty password or a
\* password shorter than the minimum is answered with 400 and never reaches
\* rdb.Set; a step that answers 400 leaves the store unchanged; no record
\* with such a username or password is ever in the store.
C14_InvalidInputRejected ==
    /\ [](\A u \in DOMAIN rdb : u # "" /\ rdb[u] # "" /\ Len(rdb[u]) >= MinPassword)
    /\ [](\A r \in Regs :
            (reg[r].pc # "idle" /\ (reg[r].Username = "" \/ reg[r].Password = ""
                                    \/ Len(reg[r].Password) < MinPassword))
                => reg[r].pc = "done" /\ reg[r].status = 400)
    /\ [][\A r \in Regs :
            (reg'[r].status = 400 /\ reg[r].status # 400) => rdb' = rdb]_vars

\* A short password was refused while the store already holds a record.
C14_Witness ==
    /\ rdb # <<>>
    /\ \E r \in Regs :
          /\ reg[r].status = 400
          /\ reg[r].Username # "" /\ reg[r].Password # ""
          /\ Len(reg[r].Password) < MinPassword

\* C15 as stated: a handler enqueues a Left event only at its Leave step
\* (which it takes once, so at most one Left event per connection), with the
\* username it joined with, and only when its entry is gone from the
\* registry; a handler whose connection the dispatcher had already removed
\* leaves the registry without the entry all the same.
C15_OneLeftAfterRemoval ==
    \A c \in Conns :
        /\ (Sending(c) /\ Outgoing(c).Type = "userLeft")
              => /\ hpc[c] = "sendLeft"
                 /\ Outgoing(c).Username = username[c]
                 /\ c \notin DOMAIN clients
        /\ (c \in dropped /\ hpc[c] \in {"sendLeft", "closed"})
              => c \notin DOMAIN clients

\* The connection is out of the registry, by its handler's Leave step or by
\* the dispatcher after a failed write, and its handler has not returned.
Removed(c) ==
    /\ hpc[c] = "sendLeft" \/ c \in dropped
    /\ hpc[c] # "closed"

\* The round of the Left event the handler of c enqueued on its way out is
\* over: the event has been written to every connection still registered.
LeftDispatched(c) ==
    /\ RoundOver
    /\ sender = c
    /\ cur = Message("userLeft", username[c], "")
    /\ hpc[c] = "closed"

\* C16 as stated: under fair scheduling, a connection that was registered
\* and has been removed eventually has its Left event enqueued and
\* dispatched to the connections still registered.
C16_LeftFollowsRemoval == \A c \in Conns : Removed(c) ~> LeftDispatched(c)

\* C17 as stated: a validation or a logout that carries a session cookie can
\* always proceed, whoever holds the lock of the connection map; it does not
\* wait while the dispatcher is inside its range loop.
C17_SessionsNeverWait ==
    \A cookie \in Tokens :
        /\ ENABLED checkLoginHandler(cookie)
        /\ ENABLED logoutHandler(cookie)

\* Some goroutine of the hub is waiting: a handler for mu or for its send on
\* broadcast to be received, or the dispatcher inside a round.
Waiting == dpc # "recv" \/ \E c \in Conns : hpc[c] \in {"join", "leave"} \/ Sending(c)

\* A step that ends some goroutine's wait.
Progress ==
    \/ \E c \in Conns : Join(c) \/ Leave(c) \/ Receive(c)
    \/ Lock
    \/ \E ok \in BOOLEAN : Write(ok)
    \/ Unlock

\* C18: no handler holds mu while it is blocked in a send on broadcast; as
\* every write returns, whenever a goroutine waits some goroutine can take
\* its step (no deadlock), and every send on broadcast that has started is
\* received.
C18_EnqueueOutsideLock ==
    /\ [](\A c \in Conns : Sending(c) => mu # c)
    /\ [](Waiting => ENABLED Progress)
    /\ \A c \in Conns : Sending(c) ~> ~Sending(c)

\* The dispatcher, holding mu, is about to write to a connection whose
\* handler is blocked in its send on broadcast, and the other handler is
\* blocked in a send too.
C18_Witness ==
    /\ mu = "dispatcher"
    /\ iter # <<>>
    /\ Sending(Head(iter))
    /\ \E c \in Conns \ {Head(iter)} : Sending(c)

\* C19: a write that failed has, before mu is released, closed its
\* connection and deleted the entry; whenever mu is free no closed connection
\* is in clients; and no write is attempted against a connection after the
\* one that failed.
C19_FailedWriteRemoves ==
    /\ [](\A c \in Conns :
            (log[c] # <<>> /\ ~log[c][Len(log[c])].ok)
                => mu = "dispatcher" /\ closed[c] /\ c \notin DOMAIN clients)
    /\ [](mu = "free" => \A c \in DOMAIN clients : ~closed[c])
    /\ [](\A c \in dropped : c \notin Range(iter) /\ Len(log[c]) <= 1)
    /\ [][\A c \in dropped : log'[c] = log[c] \/ log'[c] = <<>>]_vars

\* A connection failed in an earlier round, its handler has not yet left,
\* and the round of a later event is over without a write to it.
C19_Witness ==
    /\ RoundOver
    /\ \E c \in dropped \ failedIn :
          /\ hpc[c] \in {"sendJoined", "sendMsg", "read"}
          /\ log[c] = <<>>
          /\ \E d \in Conns \ {c} : log[d] # <<>>

\* C20 as stated: the events of one connection are dequeued in the order
\* Joined, Chat ..., Left.  The handler sends in program order and blocks in
\* each send until the dispatcher has received it, so this is: its first
\* send, and no other, carries a Joined event; the sends of its read loop
\* carry Chat events; and once a Left event of the connection has been
\* dequeued its handler has returned, so that nothing of it follows.
C20_JoinedChatsLeft ==
    \A c \in Conns :
        /\ Sending(c) =>
              /\ Outgoing(c).Type = "userJoined" <=> hpc[c] = "sendJoined"
              /\ Outgoing(c).Type = "message" <=> hpc[c] = "sendMsg"
              /\ Outgoing(c).Type = "userLeft" <=> hpc[c] = "sendLeft"
        /\ (sender = c /\ cur.Type = "userLeft") => hpc[c] = "closed"

\* The session the connection was opened with has been revoked or has
\* expired.
SessionGone(c) ==
    \/ CookieOf[c] \notin DOMAIN sessions
    \/ After(now, sessions[CookieOf[c]].ExpiresAt)

\* C21: a logout and the passing of time leave the connection map, the
\* handlers and the connections as they are; whatever has become of its
\* session, a connection that joined and neither left nor failed is
\* registered under its username, is written every event whose round starts
\* while it is registered, can read the next frame, and sends what it read
\* under its username.
C21_SessionCheckedAtUpgradeOnly ==
    /\ [][((resp'.op = "logout" /\ resp' # resp) \/ now' # now)
            => UNCHANGED <<connVars, dispVars, histVars>>]_vars
    /\ [](\A c \in Conns :
            (hpc[c] \in {"sendJoined", "read", "sendMsg"} /\ c \notin dropped)
                => /\ c \in DOMAIN clients
                   /\ clients[c] = username[c]
                   /\ dpc = "iter" => c \in regAtLock
                   /\ hpc[c] = "sendMsg" => message[c].Username = username[c])
    /\ [](RoundOver => \A c \in regAtLock : Len(log[c]) = 1 /\ log[c][1].seq = seq)
    /\ [](\A c \in Conns :
            (hpc[c] = "read" /\ ~closed[c] /\ reads < MaxReads)
                => ENABLED Read(c, [type |-> "message", username |-> "mallory",
                                    content |-> "hi"]))

\* bob has logged out; after that alice opened a connection, and its
\* userJoined event has been written to the connection bob had opened before.
C21_Witness ==
    /\ "t2" \notin DOMAIN sessions
    /\ resp.op = "ws" /\ resp.cookie = "t1" /\ resp.status = 101
    /\ RoundOver
    /\ sender = "c1"
    /\ cur = Message("userJoined", "alice", "")
    /\ "c2" \in DOMAIN clients
    /\ SessionGone("c2")
    /\ log["c2"] # <<>> /\ log["c2"][1].ok
====
